---- MODULE Spec2Model ----
(***************************************************************************)
(* Model of the role-mapping converter of APP1UserGroupexportCSV_V1.py:    *)
(* convert_excel_to_csv (lines 197-261) and the "Convert Now" button that  *)
(* starts it.  Strings are sequences of one-character strings, so that the *)
(* substring tests and the CSV text are computed, not assumed.             *)
(***************************************************************************)
EXTENDS Naturals, Integers, Sequences, FiniteSets, TLC

\* ------------------------------------------------------------------ bounds
MaxRows == 2
MaxParts == 2

\* ------------------------------------------------------------ cell values
\* A spreadsheet cell as pandas yields it: a str, NaN (blank cell) or a number.
\* A local that was never assigned in the current call is "unbound".
Str(s) == [t |-> "str", v |-> s]
Nan == [t |-> "nan", v |-> <<>>]
Num(s) == [t |-> "num", v |-> s]
Unbound == [t |-> "unbound", v |-> <<>>]
IsStr(c) == c.t = "str"

\* The string literals of the converter.
KwSiteAdministratorCreator == <<"S","i","t","e","A","d","m","i","n","i","s","t","r","a","t","o","r","C","r","e","a","t","o","r">>
\* The keyword cut short to its first word.
KwExplorerShort == <<"E","x","p","l","o","r","e","r">>
KwExplorerCanPublish == <<"E","x","p","l","o","r","e","r","C","a","n","P","u","b","l","i","s","h">>
KwViewer == <<"V","i","e","w","e","r">>
KwSiteAdministratorExplorer == <<"S","i","t","e","A","d","m","i","n","i","s","t","r","a","t","o","r","E","x","p","l","o","r","e","r">>
LitCreator == <<"C","r","e","a","t","o","r">>
LitExplorer == <<"E","x","p","l","o","r","e","r">>
LitViewer == <<"V","i","e","w","e","r">>
LitSite == <<"s","i","t","e">>
LitNone == <<"N","o","n","e">>
LitTrue == <<"T","r","u","e">>
LitFalse == <<"F","a","l","s","e">>
LitEmpty == <<>>

\* Python's `needle in hay` on two str values: a left-to-right scan.
RECURSIVE FindFrom(_, _, _)
FindFrom(needle, hay, k) ==
    IF k + Len(needle) - 1 > Len(hay) THEN FALSE
    ELSE IF SubSeq(hay, k, k + Len(needle) - 1) = needle THEN TRUE
    ELSE FindFrom(needle, hay, k + 1)

StrIn(needle, hay) == FindFrom(needle, hay, 1)

\* `'...' in site_role` raises TypeError when site_role is a float (NaN) or
\* any other non-iterable cell value.
InRaises(cell) == ~IsStr(cell)

\* row.get(key, default) on a pandas Series: the default only when the
\* label is absent; a present NaN is returned as NaN.
\* row.get(key) without the default: an absent label gives None.
RowGetNoDefault(row, key, default) ==
    IF key \in DOMAIN row THEN row[key] ELSE Nan

RowGet(row, key, default) ==
    IF key \in DOMAIN row THEN row[key] ELSE default

\* The email with the blanks around it removed.
RECURSIVE LStrip(_)
LStrip(s) == IF s # <<>> /\ Head(s) = " " THEN LStrip(Tail(s)) ELSE s
RECURSIVE RStrip(_)
RStrip(s) ==
    IF s # <<>> /\ s[Len(s)] = " " THEN RStrip(SubSeq(s, 1, Len(s) - 1)) ELSE s
GetEmailStripped(row) ==
    LET e == RowGet(row, "Email", Str(LitEmpty))
    IN IF IsStr(e) THEN Str(LStrip(RStrip(e.v))) ELSE e

GetEmail(row) == RowGet(row, "Email", Str(LitEmpty))
GetSiteRole(row) == RowGet(row, "Site Role", Str(LitEmpty))

\* The locals left as the previous iteration set them.
KeepLocals(old) == old

\* The defaults written as Python's None, which to_csv writes as nothing.
ResetLocalsToNone(old) ==
    [simplified_role |-> Str(LitEmpty),
     fifth_column |-> Nan,
     sixth_column |-> Str(LitFalse)]

\* Lines 217-219: the three locals are re-assigned at the top of every
\* iteration, whatever they held before.
ResetLocals(old) ==
    [simplified_role |-> Str(LitEmpty),
     fifth_column |-> Str(LitNone),
     sixth_column |-> Str(LitFalse)]

\* The chain with the Viewer test moved after SiteAdministratorExplorer.
MapRoleViewerLast(role, loc) ==
    IF StrIn(KwSiteAdministratorCreator, role.v)
    THEN [loc EXCEPT !.simplified_role = Str(LitCreator),
                     !.fifth_column = Str(LitSite),
                     !.sixth_column = Str(LitTrue)]
    ELSE IF StrIn(KwExplorerCanPublish, role.v)
    THEN [loc EXCEPT !.simplified_role = Str(LitExplorer),
                     !.sixth_column = Str(LitTrue)]
    ELSE IF StrIn(KwSiteAdministratorExplorer, role.v)
    THEN [loc EXCEPT !.simplified_role = Str(LitExplorer),
                     !.fifth_column = Str(LitSite),
                     !.sixth_column = Str(LitTrue)]
    ELSE IF StrIn(KwViewer, role.v)
    THEN [loc EXCEPT !.simplified_role = Str(LitViewer)]
    ELSE [loc EXCEPT !.simplified_role = role]

\* The chain with a Viewer branch that also sets the publish flag.
MapRoleViewerPublishes(role, loc) ==
    IF StrIn(KwSiteAdministratorCreator, role.v)
    THEN [loc EXCEPT !.simplified_role = Str(LitCreator),
                     !.fifth_column = Str(LitSite),
                     !.sixth_column = Str(LitTrue)]
    ELSE IF StrIn(KwExplorerCanPublish, role.v)
    THEN [loc EXCEPT !.simplified_role = Str(LitExplorer),
                     !.sixth_column = Str(LitTrue)]
    ELSE IF StrIn(KwViewer, role.v)
    THEN [loc EXCEPT !.simplified_role = Str(LitViewer),
                     !.sixth_column = Str(LitTrue)]
    ELSE IF StrIn(KwSiteAdministratorExplorer, role.v)
    THEN [loc EXCEPT !.simplified_role = Str(LitExplorer),
                     !.fifth_column = Str(LitSite),
                     !.sixth_column = Str(LitTrue)]
    ELSE [loc EXCEPT !.simplified_role = role]

\* Lines 221-235: the if / elif chain on a str site_role.
MapRole(role, loc) ==
    IF StrIn(KwSiteAdministratorCreator, role.v)
    THEN [loc EXCEPT !.simplified_role = Str(LitCreator),
                     !.fifth_column = Str(LitSite),
                     !.sixth_column = Str(LitTrue)]
    ELSE IF StrIn(KwExplorerCanPublish, role.v)
    THEN [loc EXCEPT !.simplified_role = Str(LitExplorer),
                     !.sixth_column = Str(LitTrue)]
    ELSE IF StrIn(KwViewer, role.v)
    THEN [loc EXCEPT !.simplified_role = Str(LitViewer)]
    ELSE IF StrIn(KwSiteAdministratorExplorer, role.v)
    THEN [loc EXCEPT !.simplified_role = Str(LitExplorer),
                     !.fifth_column = Str(LitSite),
                     !.sixth_column = Str(LitTrue)]
    ELSE [loc EXCEPT !.simplified_role = role]

\* The record with one of the two empty columns left out.
MakeRecordFive(e, loc) ==
    <<e, Str(LitEmpty),
      loc.simplified_role, loc.fifth_column, loc.sixth_column>>

\* Lines 238-245: the list appended for one row.
MakeRecord(e, loc) ==
    <<e, Str(LitEmpty), Str(LitEmpty),
      loc.simplified_role, loc.fifth_column, loc.sixth_column>>

\* An append that drops a record already in the list.
AppendUnique(data, rec) ==
    IF \E i \in 1..Len(data) : data[i] = rec THEN data ELSE Append(data, rec)

AppendRecord(data, rec) == Append(data, rec)

\* --------------------------------------------------------------- to_csv
\* pd.DataFrame(rows).to_csv(index=False, header=False): one line per row,
\* fields joined by ",", NaN written as the empty field, a field holding a
\* comma, a double quote or a line break quoted with its quotes doubled.
Comma == ","
Quote == "\""
LF == "\n"
CR == "\r"
Specials == {Comma, Quote, LF, CR}

RECURSIVE DoubleQuotes(_)
DoubleQuotes(s) ==
    IF s = <<>> THEN <<>>
    ELSE (IF Head(s) = Quote THEN <<Quote, Quote>> ELSE <<Head(s)>>)
         \o DoubleQuotes(Tail(s))

CellText(c) == IF c.t = "nan" THEN <<>> ELSE c.v

CsvField(c) ==
    LET s == CellText(c) IN
    IF \E k \in 1..Len(s) : s[k] \in Specials
    THEN <<Quote>> \o DoubleQuotes(s) \o <<Quote>>
    ELSE s

RECURSIVE JoinFields(_)
JoinFields(rec) ==
    IF Len(rec) = 0 THEN <<>>
    ELSE IF Len(rec) = 1 THEN CsvField(rec[1])
    ELSE CsvField(rec[1]) \o <<Comma>> \o JoinFields(Tail(rec))

RECURSIVE ToCsv(_)
ToCsv(data) ==
    IF data = <<>> THEN <<>>
    ELSE JoinFields(Head(data)) \o <<LF>> \o ToCsv(Tail(data))

\* ------------------------------------------------------------ the inputs
\* What the file uploader holds: nothing, a file read_excel cannot parse,
\* or a sheet with a header (set of column labels) and its rows.
NoFile == [kind |-> "none", header |-> {}, rows |-> <<>>]
Unreadable == [kind |-> "unreadable", header |-> {}, rows |-> <<>>]
Sheet(h, rs) == [kind |-> "sheet", header |-> h, rows |-> rs]

SeqsUpTo(S, n) == UNION {[1..k -> S] : k \in 0..n}

EmailCells == {Str(<<"a">>), Str(<<" ", "B", ",", "\"", " ">>), Nan}
RoleCells ==
    {Str(KwSiteAdministratorCreator), Str(KwExplorerCanPublish),
     Str(KwViewer), Str(KwSiteAdministratorExplorer),
     Str(<<"U","n","l","i","c","e","n","s","e","d">>),
     Nan, Num(<<"5">>)}

Headers ==
    {{"Email", "Site Role"}, {"Email"}, {"Site Role"}, {},
     {"email", "site role"}}

CellsOf(label) ==
    IF label \in {"Email", "email"} THEN EmailCells ELSE RoleCells

\* Rows of a sheet with the given header: every row of a sheet is indexed
\* by the labels of the header (columns other than these are not consulted).
RowsWith(header) ==
    {f \in [header -> EmailCells \cup RoleCells] :
        \A c \in header : f[c] \in CellsOf(c)}

Sheets == UNION {{Sheet(h, rs) : rs \in SeqsUpTo(RowsWith(h), MaxRows)} : h \in Headers}
Files == {NoFile, Unreadable} \cup Sheets

\* ------------------------------------------------------------- the state
VARIABLES
    uploaded_file,     \* what st.file_uploader returns
    pc,                \* position in convert_excel_to_csv
    df,                \* rows of the DataFrame read from the file
    idx,               \* position of df.iterrows()
    transformed_data,
    email, site_role,
    simplified_role, fifth_column, sixth_column,
    csv_data,
    download,          \* the download button of the page, if one was created
    ui,                \* messages written to the page by this invocation
    last_run,          \* what the previous invocation left on the page
    mode,              \* the page chosen with the radio of line 16
    v2,                \* frame of the "Convert User Format" branch of main
    imp,               \* frame of run_import
    exp,               \* frame of run_export
    server             \* the Tableau session and the site behind it

\* What convert_excel_to_csv has no access to.
outside == <<mode, v2, imp, exp, server>>

vars == <<uploaded_file, pc, df, idx, transformed_data, email, site_role,
          simplified_role, fifth_column, sixth_column, csv_data, download,
          ui, last_run, mode, v2, imp, exp, server>>

\* Line 16: the three pages.
ModeExport == "Export Tableau Content"
ModeImport == "Import Users & Groups"
ModeConvert == "Convert User Excel to User CSV"

\* Lines 939-948: the branch of main before its button is pressed.
V2Idle ==
    [pc |-> "idle", df |-> <<>>, idx |-> 0, transformed_data |-> <<>>,
     email |-> Unbound, site_role |-> Unbound, simplified_role |-> Unbound,
     fifth_column |-> Unbound, sixth_column |-> Unbound,
     csv_data |-> <<>>, download |-> [offered |-> FALSE, data |-> <<>>],
     ui |-> <<>>]

\* Lines 102-105: run_import before "Import Now" is pressed.
NoCsv == [kind |-> "none", header |-> <<>>, rows |-> <<>>]
ImpIdle ==
    [pc |-> "idle", import_type |-> "Users", uploaded_file |-> NoCsv,
     columns |-> <<>>, df |-> <<>>, idx |-> 0, group_name |-> Unbound,
     ui |-> <<>>]

\* Lines 81-82: run_export before its button is pressed.
ExpIdle == [pc |-> "idle", step |-> 0, downloads |-> <<>>, ui |-> <<>>]

\* Lines 73-76: no session is open, nothing was asked of the site.
NoSession == [signed_in |-> FALSE, users |-> <<>>, groups |-> <<>>, calls |-> <<>>]

NoDownload == [offered |-> FALSE, data |-> <<>>]
\* The button created only for a non-empty text.
OfferIfNotEmpty(text) ==
    IF text = <<>> THEN NoDownload ELSE [offered |-> TRUE, data |-> text]
Offer(text) == [offered |-> TRUE, data |-> text]
NoRun == [ran |-> FALSE, file |-> NoFile, records |-> <<>>,
          download |-> NoDownload, ui |-> <<>>]

Locals == [simplified_role |-> simplified_role,
           fifth_column |-> fifth_column,
           sixth_column |-> sixth_column]

\* The list kept from the previous invocation instead of a new one.
CarriedOver(old) == last_run.records

\* Line 207.
NewTransformed(old) == <<>>

\* An except clause that swallows the exception.
ExceptPass(page) == page

\* Line 260-261: the except clause of convert_excel_to_csv.
ExceptHandler(page) == Append(page, "error")

\* Line 311 before any press of "Convert Now".
ConverterInit(files) ==
    /\ uploaded_file \in files
    /\ pc = "idle"
    /\ df = <<>>
    /\ idx = 0
    /\ transformed_data = <<>>
    /\ email = Unbound
    /\ site_role = Unbound
    /\ simplified_role = Unbound
    /\ fifth_column = Unbound
    /\ sixth_column = Unbound
    /\ csv_data = <<>>
    /\ download = NoDownload
    /\ ui = <<>>
    /\ last_run = NoRun

InitWith(files) ==
    /\ ConverterInit(files)
    /\ mode = ModeConvert
    /\ v2 = V2Idle
    /\ imp = ImpIdle
    /\ exp = ExpIdle
    /\ server = NoSession

Init == InitWith(Files)

\* What the invocation that just ended leaves behind when the script reruns.
Snapshot ==
    IF pc = "done"
    THEN [ran |-> TRUE, file |-> uploaded_file, records |-> transformed_data,
          download |-> download, ui |-> ui]
    ELSE last_run

\* Line 311: another file is put in the uploader.  The script reruns with
\* the button not pressed, so the page shows no result of the converter.
Upload(f) ==
    /\ pc \in {"idle", "done"}
    /\ uploaded_file' = f
    /\ last_run' = Snapshot
    /\ pc' = "idle"
    /\ df' = <<>>
    /\ idx' = 0
    /\ transformed_data' = <<>>
    /\ email' = Unbound
    /\ site_role' = Unbound
    /\ simplified_role' = Unbound
    /\ fifth_column' = Unbound
    /\ sixth_column' = Unbound
    /\ csv_data' = <<>>
    /\ download' = NoDownload
    /\ ui' = <<>>
    /\ UNCHANGED outside

\* Lines 313-314 and 198-202: the button is pressed; the script reruns, so
\* the page is drawn afresh and convert_excel_to_csv starts a new frame.
ConvertNow ==
    /\ pc \in {"idle", "done"}
    /\ last_run' = Snapshot
    /\ df' = <<>>
    /\ idx' = 0
    /\ transformed_data' = <<>>
    /\ email' = Unbound
    /\ site_role' = Unbound
    /\ simplified_role' = Unbound
    /\ fifth_column' = Unbound
    /\ sixth_column' = Unbound
    /\ csv_data' = <<>>
    /\ download' = NoDownload
    /\ IF uploaded_file.kind = "none"
       THEN /\ ui' = <<"warning">>
            /\ pc' = "done"
       ELSE /\ ui' = <<>>
            /\ pc' = "read"
    /\ UNCHANGED uploaded_file
    /\ UNCHANGED outside

\* read_excel followed by a sign-in to the site.
ReadExcelSignsIn ==
    /\ pc = "read"
    /\ uploaded_file.kind = "sheet"
    /\ df' = uploaded_file.rows
    /\ ui' = Append(ui, "preview")
    /\ transformed_data' = <<>>
    /\ idx' = 1
    /\ pc' = "loop"
    /\ server' = [server EXCEPT !.signed_in = TRUE]
    /\ UNCHANGED <<uploaded_file, email, site_role, simplified_role,
                   fifth_column, sixth_column, csv_data, download, last_run>>
    /\ UNCHANGED <<mode, v2, imp, exp>>

\* Lines 203-207, read_excel succeeds.
ReadExcel ==
    /\ pc = "read"
    /\ uploaded_file.kind = "sheet"
    /\ df' = uploaded_file.rows
    /\ ui' = Append(ui, "preview")
    /\ transformed_data' = NewTransformed(transformed_data)
    /\ idx' = 1
    /\ pc' = "loop"
    /\ UNCHANGED <<uploaded_file, email, site_role, simplified_role,
                   fifth_column, sixth_column, csv_data, download, last_run>>
    /\ UNCHANGED outside

\* Line 203 raises; lines 260-261.
ReadExcelFails ==
    /\ pc = "read"
    /\ uploaded_file.kind = "unreadable"
    /\ ui' = ExceptHandler(ui)
    /\ pc' = "done"
    /\ UNCHANGED <<uploaded_file, df, idx, transformed_data, email, site_role,
                   simplified_role, fifth_column, sixth_column, csv_data,
                   download, last_run>>
    /\ UNCHANGED outside

\* Lines 210-245: one iteration of the loop that runs to the append.
ConvertRow ==
    /\ pc = "loop"
    /\ idx <= Len(df)
    /\ LET e == GetEmail(df[idx])
           r == GetSiteRole(df[idx])
           loc == MapRole(r, ResetLocals(Locals))
       IN /\ ~InRaises(r)
          /\ email' = e
          /\ site_role' = r
          /\ simplified_role' = loc.simplified_role
          /\ fifth_column' = loc.fifth_column
          /\ sixth_column' = loc.sixth_column
          /\ transformed_data' = AppendRecord(transformed_data, MakeRecord(e, loc))
    /\ idx' = idx + 1
    /\ UNCHANGED <<uploaded_file, pc, df, csv_data, download, ui, last_run>>
    /\ UNCHANGED outside

\* Lines 210-221 and 260-261: the first `in` test raises TypeError.
ConvertRowRaises ==
    /\ pc = "loop"
    /\ idx <= Len(df)
    /\ LET e == GetEmail(df[idx])
           r == GetSiteRole(df[idx])
           loc == ResetLocals(Locals)
       IN /\ InRaises(r)
          /\ email' = e
          /\ site_role' = r
          /\ simplified_role' = loc.simplified_role
          /\ fifth_column' = loc.fifth_column
          /\ sixth_column' = loc.sixth_column
    /\ ui' = ExceptHandler(ui)
    /\ pc' = "done"
    /\ UNCHANGED <<uploaded_file, df, idx, transformed_data, csv_data,
                   download, last_run>>
    /\ UNCHANGED outside

\* Lines 248-258: the loop is exhausted.
Finish ==
    /\ pc = "loop"
    /\ idx > Len(df)
    /\ csv_data' = ToCsv(transformed_data)
    /\ download' = Offer(csv_data')
    /\ ui' = ui \o <<"download", "success">>
    /\ pc' = "done"
    /\ UNCHANGED <<uploaded_file, df, idx, transformed_data, email, site_role,
                   simplified_role, fifth_column, sixth_column, last_run>>
    /\ UNCHANGED outside

Next ==
    \/ ConvertNow
    \/ ReadExcel
    \/ ReadExcelFails
    \/ ConvertRow
    \/ ConvertRowRaises
    \/ Finish

Spec == Init /\ [][Next]_vars

\* --------------------------------------------- single rows, many role strings
\* Role strings built from up to MaxParts fragments, so that a string can
\* hold several keywords, a keyword in another case, or a keyword that only
\* arises across the seam of two fragments.
Fragments ==
    {KwSiteAdministratorCreator, KwExplorerCanPublish, KwViewer,
     KwSiteAdministratorExplorer,
     <<"v","i","e","w","e","r">>,
     <<"S","i","t","e","A","d","m","i","n","i","s","t","r","a","t","o","r">>,
     <<"E","x","p","l","o","r","e","r">>,
     <<"x">>}

RECURSIVE Concat(_)
Concat(parts) ==
    IF parts = <<>> THEN <<>> ELSE Head(parts) \o Concat(Tail(parts))

RoleStrings == {Concat(ps) : ps \in SeqsUpTo(Fragments, MaxParts)}

MapCells == {Str(s) : s \in RoleStrings} \cup {Nan, Num(<<"5">>)}

MapFiles ==
    {Sheet({"Email", "Site Role"},
           <<[c \in {"Email", "Site Role"} |->
                IF c = "Email" THEN Str(<<"a">>) ELSE r]>>) : r \in MapCells}
    \cup {NoFile, Unreadable}

InitMap == InitWith(MapFiles)
SpecMap == InitMap /\ [][Next]_vars

\* ------------------------------------------------ two files, one after another
PairRows ==
    {[c \in {"Email", "Site Role"} |-> IF c = "Email" THEN Str(<<"a">>) ELSE r] :
        r \in {Str(KwSiteAdministratorCreator), Str(KwViewer),
               Str(<<"U","n","l","i","c","e","n","s","e","d">>), Nan}}

PairFiles ==
    {Sheet({"Email", "Site Role"}, rs) : rs \in SeqsUpTo(PairRows, MaxRows)}
    \cup {NoFile, Unreadable}

InitPair == InitWith(PairFiles)

Reupload == \E f \in PairFiles : Upload(f)

NextPair ==
    \/ Next
    \/ Reupload

SpecPair == InitPair /\ [][NextPair]_vars

\* ------------------------------------ the "Convert User Format" branch of main
\* Lines 951-952.
V2GetEmail(row) == RowGet(row, "Email", Str(LitEmpty))
V2GetSiteRole(row) == RowGet(row, "Site Role", Str(LitEmpty))

\* Lines 954-956.
V2ResetLocals(old) ==
    [simplified_role |-> Str(LitEmpty),
     fifth_column |-> Str(LitNone),
     sixth_column |-> Str(LitFalse)]

\* The chain without its last branch: an unknown role leaves the default.
V2MapRoleNoFallback(role, loc) ==
    IF StrIn(KwSiteAdministratorCreator, role.v)
    THEN [loc EXCEPT !.simplified_role = Str(LitCreator),
                     !.fifth_column = Str(LitSite),
                     !.sixth_column = Str(LitTrue)]
    ELSE IF StrIn(KwExplorerCanPublish, role.v)
    THEN [loc EXCEPT !.simplified_role = Str(LitExplorer),
                     !.sixth_column = Str(LitTrue)]
    ELSE IF StrIn(KwViewer, role.v)
    THEN [loc EXCEPT !.simplified_role = Str(LitViewer)]
    ELSE IF StrIn(KwSiteAdministratorExplorer, role.v)
    THEN [loc EXCEPT !.simplified_role = Str(LitExplorer),
                     !.fifth_column = Str(LitSite),
                     !.sixth_column = Str(LitTrue)]
    ELSE loc

\* Lines 958-972.
V2MapRole(role, loc) ==
    IF StrIn(KwSiteAdministratorCreator, role.v)
    THEN [loc EXCEPT !.simplified_role = Str(LitCreator),
                     !.fifth_column = Str(LitSite),
                     !.sixth_column = Str(LitTrue)]
    ELSE IF StrIn(KwExplorerCanPublish, role.v)
    THEN [loc EXCEPT !.simplified_role = Str(LitExplorer),
                     !.sixth_column = Str(LitTrue)]
    ELSE IF StrIn(KwViewer, role.v)
    THEN [loc EXCEPT !.simplified_role = Str(LitViewer)]
    ELSE IF StrIn(KwSiteAdministratorExplorer, role.v)
    THEN [loc EXCEPT !.simplified_role = Str(LitExplorer),
                     !.fifth_column = Str(LitSite),
                     !.sixth_column = Str(LitTrue)]
    ELSE [loc EXCEPT !.simplified_role = role]

\* Lines 974-976.
V2MakeRecord(e, loc) ==
    <<e, Str(LitEmpty), Str(LitEmpty),
      loc.simplified_role, loc.fifth_column, loc.sixth_column>>

V2Locals == [simplified_role |-> v2.simplified_role,
             fifth_column |-> v2.fifth_column,
             sixth_column |-> v2.sixth_column]

\* A rerun of the script is one uninterrupted pass: a version starts only
\* when the other one is not in the middle of its own.
V1AtRest == pc \in {"idle", "done"}
V2AtRest == v2.pc \in {"idle", "done", "crashed"}

\* Lines 939-948: the file is read on every rerun that has one, and the
\* press of "Convert to CSV" enters the try with an empty list.
V2ConvertToCsv ==
    /\ V1AtRest
    /\ V2AtRest
    /\ uploaded_file.kind = "sheet"
    /\ v2' = [V2Idle EXCEPT !.pc = "loop",
                            !.df = uploaded_file.rows,
                            !.idx = 1,
                            !.ui = <<"uploaded", "preview">>]
    /\ UNCHANGED <<uploaded_file, pc, df, idx, transformed_data, email,
                   site_role, simplified_role, fifth_column, sixth_column,
                   csv_data, download, ui, last_run, mode, imp, exp, server>>

\* Line 941 raises outside any try: the rerun ends with the exception on
\* the page and the button is never drawn.
V2ReadExcelFails ==
    /\ V1AtRest
    /\ v2.pc = "idle"
    /\ uploaded_file.kind = "unreadable"
    /\ v2' = [V2Idle EXCEPT !.pc = "crashed",
                            !.ui = <<"uploaded", "exception">>]
    /\ UNCHANGED <<uploaded_file, pc, df, idx, transformed_data, email,
                   site_role, simplified_role, fifth_column, sixth_column,
                   csv_data, download, ui, last_run, mode, imp, exp, server>>

\* Lines 950-976: one iteration that runs to the append.
V2ConvertRow ==
    /\ v2.pc = "loop"
    /\ v2.idx <= Len(v2.df)
    /\ LET e == V2GetEmail(v2.df[v2.idx])
           r == V2GetSiteRole(v2.df[v2.idx])
           loc == V2MapRole(r, V2ResetLocals(V2Locals))
       IN /\ ~InRaises(r)
          /\ v2' = [v2 EXCEPT !.email = e,
                              !.site_role = r,
                              !.simplified_role = loc.simplified_role,
                              !.fifth_column = loc.fifth_column,
                              !.sixth_column = loc.sixth_column,
                              !.transformed_data = Append(@, V2MakeRecord(e, loc)),
                              !.idx = @ + 1]
    /\ UNCHANGED <<uploaded_file, pc, df, idx, transformed_data, email,
                   site_role, simplified_role, fifth_column, sixth_column,
                   csv_data, download, ui, last_run, mode, imp, exp, server>>

\* Lines 950-958 and 989-990: the first `in` test raises TypeError.
V2ConvertRowRaises ==
    /\ v2.pc = "loop"
    /\ v2.idx <= Len(v2.df)
    /\ LET e == V2GetEmail(v2.df[v2.idx])
           r == V2GetSiteRole(v2.df[v2.idx])
           loc == V2ResetLocals(V2Locals)
       IN /\ InRaises(r)
          /\ v2' = [v2 EXCEPT !.email = e,
                              !.site_role = r,
                              !.simplified_role = loc.simplified_role,
                              !.fifth_column = loc.fifth_column,
                              !.sixth_column = loc.sixth_column,
                              !.ui = Append(@, "error"),
                              !.pc = "done"]
    /\ UNCHANGED <<uploaded_file, pc, df, idx, transformed_data, email,
                   site_role, simplified_role, fifth_column, sixth_column,
                   csv_data, download, ui, last_run, mode, imp, exp, server>>

\* Lines 978-987: the loop is exhausted.
V2Finish ==
    /\ v2.pc = "loop"
    /\ v2.idx > Len(v2.df)
    /\ LET text == ToCsv(v2.transformed_data)
       IN v2' = [v2 EXCEPT !.csv_data = text,
                           !.download = [offered |-> TRUE, data |-> text],
                           !.ui = @ \o <<"download", "success">>,
                           !.pc = "done"]
    /\ UNCHANGED <<uploaded_file, pc, df, idx, transformed_data, email,
                   site_role, simplified_role, fifth_column, sixth_column,
                   csv_data, download, ui, last_run, mode, imp, exp, server>>

\* The sheets given to both versions.
V2EmailCells == {Str(<<"a">>), Nan}
V2RoleCells ==
    {Str(KwSiteAdministratorCreator), Str(KwExplorerCanPublish), Str(KwViewer),
     Str(KwSiteAdministratorExplorer),
     Str(<<"U","n","l","i","c","e","n","s","e","d">>), Nan}
V2Headers == {{"Email", "Site Role"}, {"Email"}, {"Site Role"}, {}}
V2RowsWith(header) ==
    {f \in [header -> V2EmailCells \cup V2RoleCells] :
        \A c \in header :
           f[c] \in (IF c = "Email" THEN V2EmailCells ELSE V2RoleCells)}
V2Files ==
    UNION {{Sheet(h, rs) : rs \in SeqsUpTo(V2RowsWith(h), MaxRows)} : h \in V2Headers}
    \cup {NoFile, Unreadable}

InitV2 == InitWith(V2Files)

V1Turn == V2AtRest /\ Next

NextV2 ==
    \/ V1Turn
    \/ V2ConvertToCsv
    \/ V2ReadExcelFails
    \/ V2ConvertRow
    \/ V2ConvertRowRaises
    \/ V2Finish

SpecV2 == InitV2 /\ [][NextV2]_vars

\* --------------------------------------------------- run_import, run_export
\* A CSV that read_csv rejects, and one it reads: the labels of its columns
\* in file order and, for every row, one cell per column.
BadCsv == [kind |-> "unreadable", header |-> <<>>, rows |-> <<>>]
Csv(h, rs) == [kind |-> "csv", header |-> h, rows |-> rs]

\* Python's None.
None == [t |-> "none", v |-> <<>>]

\* Lines 118 and 167: row.dropna().to_dict(), the (label, value) pairs of
\* the cells that are not null, in column order.
RowDict(columns, row) ==
    LET pairs == [i \in 1..Len(columns) |-> <<columns[i], row[i]>>]
        NotNull(p) == p[2] # Nan
    IN SelectSeq(pairs, NotNull)

\* Line 132: str.lower.
UpperCase == <<"A","B","C","D","E","F","G","H","I","J","K","L","M","N","O","P","Q","R","S","T","U","V","W","X","Y","Z">>
LowerCase == <<"a","b","c","d","e","f","g","h","i","j","k","l","m","n","o","p","q","r","s","t","u","v","w","x","y","z">>
LowerChar(c) ==
    IF \E i \in 1..Len(UpperCase) : UpperCase[i] = c
    THEN LowerCase[CHOOSE i \in 1..Len(UpperCase) : UpperCase[i] = c]
    ELSE c
\* str.lower that leaves the label as it is.
LowerNot(k) == k
Lower(k) == [i \in 1..Len(k) |-> LowerChar(k[i])]

\* Lines 124-129.
valid_keys ==
    {<<"n","a","m","e">>,
     <<"s","i","t","e","_","r","o","l","e">>,
     <<"f","u","l","l","_","n","a","m","e">>,
     <<"e","m","a","i","l">>,
     <<"a","u","t","h","_","s","e","t","t","i","n","g">>,
     <<"e","x","t","e","r","n","a","l","_","a","u","t","h","_","u","s","e","r","_","i","d">>,
     <<"l","o","c","a","l","e">>,
     <<"p","a","s","s","w","o","r","d">>,
     <<"p","a","s","s","w","o","r","d","_","n","e","v","e","r","_","e","x","p","i","r","e","s">>,
     <<"m","u","s","t","_","c","h","a","n","g","e","_","p","a","s","s","w","o","r","d">>,
     <<"c","o","n","t","e","n","t","_","a","d","m","i","n">>,
     <<"s","e","r","v","e","r","_","r","o","l","e">>,
     <<"t","a","g","s">>}


\* Lines 131-134: the dict filled in row order, a later pair replacing an
\* earlier one with the same lower-cased key.
UserKwargs(row_dict) ==
    LET keys == {Lower(row_dict[i][1]) : i \in 1..Len(row_dict)} \cap valid_keys
        last(k) == CHOOSE i \in 1..Len(row_dict) :
                      /\ Lower(row_dict[i][1]) = k
                      /\ \A j \in 1..Len(row_dict) :
                            Lower(row_dict[j][1]) = k => j <= i
    IN [k \in keys |-> row_dict[last(k)][2]]

\* Line 137, negated.
HasRequired(user_kwargs) ==
    /\ <<"n","a","m","e">> \in DOMAIN user_kwargs
    /\ <<"s","i","t","e","_","r","o","l","e">> \in DOMAIN user_kwargs

\* str.strip.
Whitespace == {" ", "\t", "\n", "\r"}
RECURSIVE StripLeft(_)
StripLeft(s) ==
    IF s # <<>> /\ Head(s) \in Whitespace THEN StripLeft(Tail(s)) ELSE s
RECURSIVE StripRight(_)
StripRight(s) ==
    IF s # <<>> /\ s[Len(s)] \in Whitespace
    THEN StripRight(SubSeq(s, 1, Len(s) - 1)) ELSE s
Strip(s) == StripLeft(StripRight(s))

\* The first usable value taken as it is written in the file.
GroupNameUnstripped(row_dict) ==
    LET usable == {i \in 1..Len(row_dict) :
                      IsStr(row_dict[i][2]) /\ Strip(row_dict[i][2].v) # <<>>}
    IN IF usable = {} THEN None
       ELSE row_dict[CHOOSE i \in usable : \A j \in usable : i <= j][2]

\* Lines 170-174: the loop over row_dict.values() up to its break.
GroupName(row_dict) ==
    LET usable == {i \in 1..Len(row_dict) :
                      IsStr(row_dict[i][2]) /\ Strip(row_dict[i][2].v) # <<>>}
    IN IF usable = {} THEN None
       ELSE Str(Strip(row_dict[CHOOSE i \in usable : \A j \in usable : i <= j][2].v))

\* One request made to the site, in the order they are made.
Call(op, row, arg, ok) == [op |-> op, row |-> row, arg |-> arg, ok |-> ok]

\* Lines 73-76: sign_in succeeds; line 76 hands the session over.
SignedIn(s) ==
    [s EXCEPT !.signed_in = TRUE,
              !.calls = Append(@, Call("auth.sign_in", 0, None, TRUE))]
\* Line 75 raises: no session.
SignInRefused(s) ==
    [s EXCEPT !.calls = Append(@, Call("auth.sign_in", 0, None, FALSE))]
\* Lines 94 and 188.
SignedOut(s) ==
    [s EXCEPT !.signed_in = FALSE,
              !.calls = Append(@, Call("auth.sign_out", 0, None, TRUE))]

\* What run_import and run_export have no access to.
converter == <<uploaded_file, pc, df, idx, transformed_data, email, site_role,
               simplified_role, fifth_column, sixth_column, csv_data,
               download, ui, last_run, v2>>

\* A message written to the page; a warning of the loops quotes its row.
Msg(m, row) == [m |-> m, row |-> row]
ImpShow(m) == [imp EXCEPT !.ui = Append(@, Msg(m, 0))]
ImpWarn(m) == [imp EXCEPT !.ui = Append(@, Msg(m, imp.idx))]

\* The press that connects whether or not a file was uploaded.
ImportNowWithoutCheck ==
    /\ mode = ModeImport
    /\ imp.pc = "idle"
    /\ imp' = [imp EXCEPT !.ui = <<>>, !.pc = "connect"]
    /\ UNCHANGED <<converter, mode, exp, server>>

\* Lines 297-305 and 103-105: "Import Now" is pressed.
ImportNow ==
    /\ mode = ModeImport
    /\ imp.pc = "idle"
    /\ imp' = IF imp.uploaded_file.kind = "none"
              THEN [imp EXCEPT !.ui = <<Msg("please_upload", 0)>>, !.pc = "done"]
              ELSE [imp EXCEPT !.ui = <<>>, !.pc = "connect"]
    /\ UNCHANGED <<converter, mode, exp, server>>

\* Lines 108-110.
ImpSignIn ==
    /\ imp.pc = "connect"
    /\ server' = SignedIn(server)
    /\ imp' = [ImpShow("connected") EXCEPT !.pc = "read"]
    /\ UNCHANGED <<converter, mode, exp>>

\* Line 109 raises; lines 191-192.
ImpSignInFails ==
    /\ imp.pc = "connect"
    /\ server' = SignInRefused(server)
    /\ imp' = [ImpShow("import_failed") EXCEPT !.pc = "done"]
    /\ UNCHANGED <<converter, mode, exp>>

\* Lines 112-115 and 164.
ReadCsv ==
    /\ imp.pc = "read"
    /\ imp.uploaded_file.kind = "csv"
    /\ imp' = [ImpShow("preview") EXCEPT
                  !.columns = imp.uploaded_file.header,
                  !.df = imp.uploaded_file.rows,
                  !.idx = 1,
                  !.pc = IF imp.import_type = "Users" THEN "users" ELSE "groups"]
    /\ UNCHANGED <<converter, mode, exp, server>>

\* Line 112 raises; lines 191-192.  Nothing signs the session out.
ReadCsvFails ==
    /\ imp.pc = "read"
    /\ imp.uploaded_file.kind = "unreadable"
    /\ imp' = [ImpShow("import_failed") EXCEPT !.pc = "done"]
    /\ UNCHANGED <<converter, mode, exp, server>>

CurrentDict == RowDict(imp.columns, imp.df[imp.idx])
InUsersLoop == imp.pc = "users" /\ imp.idx <= Len(imp.df)
InGroupsLoop == imp.pc = "groups" /\ imp.idx <= Len(imp.df)

\* Lines 137-139.
UserSkipped ==
    /\ InUsersLoop
    /\ ~HasRequired(UserKwargs(CurrentDict))
    /\ imp' = [ImpWarn("skipping_row") EXCEPT !.idx = @ + 1]
    /\ UNCHANGED <<converter, mode, exp, server>>

\* Lines 142-156 raise (the item rejects its arguments); lines 159-160.
UserItemRaises ==
    /\ InUsersLoop
    /\ HasRequired(UserKwargs(CurrentDict))
    /\ imp' = [ImpWarn("could_not_add") EXCEPT !.idx = @ + 1]
    /\ UNCHANGED <<converter, mode, exp, server>>

\* Lines 142-157.
UserAdd ==
    /\ InUsersLoop
    /\ HasRequired(UserKwargs(CurrentDict))
    /\ LET name == UserKwargs(CurrentDict)[<<"n","a","m","e">>]
       IN server' = [server EXCEPT
                        !.users = Append(@, name),
                        !.calls = Append(@, Call("users.add", imp.idx, name, TRUE))]
    /\ imp' = [imp EXCEPT !.idx = @ + 1]
    /\ UNCHANGED <<converter, mode, exp>>

\* The refusal of one user handled by the outer except clause.
UserAddRaisesAborts ==
    /\ InUsersLoop
    /\ HasRequired(UserKwargs(CurrentDict))
    /\ LET name == UserKwargs(CurrentDict)[<<"n","a","m","e">>]
       IN server' = [server EXCEPT
                        !.calls = Append(@, Call("users.add", imp.idx, name, FALSE))]
    /\ imp' = [ImpShow("import_failed") EXCEPT !.pc = "done"]
    /\ UNCHANGED <<converter, mode, exp>>

\* Line 157 raises (the site refuses the user); lines 159-160.
UserAddRaises ==
    /\ InUsersLoop
    /\ HasRequired(UserKwargs(CurrentDict))
    /\ LET name == UserKwargs(CurrentDict)[<<"n","a","m","e">>]
       IN server' = [server EXCEPT
                        !.calls = Append(@, Call("users.add", imp.idx, name, FALSE))]
    /\ imp' = [ImpWarn("could_not_add") EXCEPT !.idx = @ + 1]
    /\ UNCHANGED <<converter, mode, exp>>

\* Line 162.
UsersDone ==
    /\ imp.pc = "users"
    /\ imp.idx > Len(imp.df)
    /\ imp' = [ImpShow("all_users_imported") EXCEPT !.pc = "sign_out"]
    /\ UNCHANGED <<converter, mode, exp, server>>

\* Lines 167-178.
GroupSkipped ==
    /\ InGroupsLoop
    /\ GroupName(CurrentDict) = None
    /\ imp' = [ImpWarn("skipping_row") EXCEPT !.idx = @ + 1,
                                              !.group_name = None]
    /\ UNCHANGED <<converter, mode, exp, server>>

\* Lines 167-181.
GroupCreate ==
    /\ InGroupsLoop
    /\ GroupName(CurrentDict) # None
    /\ LET name == GroupName(CurrentDict)
       IN /\ server' = [server EXCEPT
                           !.groups = Append(@, name),
                           !.calls = Append(@, Call("groups.create", imp.idx, name, TRUE))]
          /\ imp' = [imp EXCEPT !.idx = @ + 1, !.group_name = name]
    /\ UNCHANGED <<converter, mode, exp>>

\* Line 181 raises (the site refuses the group); lines 183-184.
GroupCreateRaises ==
    /\ InGroupsLoop
    /\ GroupName(CurrentDict) # None
    /\ LET name == GroupName(CurrentDict)
       IN /\ server' = [server EXCEPT
                           !.calls = Append(@, Call("groups.create", imp.idx, name, FALSE))]
          /\ imp' = [ImpWarn("could_not_create") EXCEPT !.idx = @ + 1,
                                                        !.group_name = name]
    /\ UNCHANGED <<converter, mode, exp>>

\* Line 186.
GroupsDone ==
    /\ imp.pc = "groups"
    /\ imp.idx > Len(imp.df)
    /\ imp' = [ImpShow("all_groups_imported") EXCEPT !.pc = "sign_out"]
    /\ UNCHANGED <<converter, mode, exp, server>>

\* Lines 188-189.
ImpSignOut ==
    /\ imp.pc = "sign_out"
    /\ server' = SignedOut(server)
    /\ imp' = [ImpShow("signed_out") EXCEPT !.pc = "done"]
    /\ UNCHANGED <<converter, mode, exp>>

\* Lines 88-92: the five listings, in order.
ExportOps ==
    <<"users.get", "groups.get", "projects.get", "workbooks.get",
      "datasources.get">>

ExpShow(m) == [exp EXCEPT !.ui = Append(@, m)]

\* Lines 270-278 and 82-83: an export button is pressed.
ExportNow ==
    /\ mode = ModeExport
    /\ exp.pc = "idle"
    /\ exp' = [exp EXCEPT !.ui = <<>>, !.pc = "connect"]
    /\ UNCHANGED <<converter, mode, imp, server>>

\* Lines 84-85.
ExpSignIn ==
    /\ exp.pc = "connect"
    /\ server' = SignedIn(server)
    /\ exp' = [ExpShow("connected") EXCEPT !.pc = "export", !.step = 1]
    /\ UNCHANGED <<converter, mode, imp>>

\* Line 84 raises; lines 96-97.
ExpSignInFails ==
    /\ exp.pc = "connect"
    /\ server' = SignInRefused(server)
    /\ exp' = [ExpShow("connection_failed") EXCEPT !.pc = "done"]
    /\ UNCHANGED <<converter, mode, imp>>

\* One of lines 88-92 with the function it calls (lines 40-68 and 32-35).
ExportStep ==
    /\ exp.pc = "export"
    /\ exp.step <= Len(ExportOps)
    /\ server' = [server EXCEPT
                     !.calls = Append(@, Call(ExportOps[exp.step], 0, None, TRUE))]
    /\ exp' = [exp EXCEPT !.downloads = Append(@, ExportOps[exp.step]),
                          !.step = @ + 1]
    /\ UNCHANGED <<converter, mode, imp>>

\* The listing of one of lines 88-92 raises; lines 96-97.  Nothing signs
\* the session out.
ExportStepRaises ==
    /\ exp.pc = "export"
    /\ exp.step <= Len(ExportOps)
    /\ server' = [server EXCEPT
                     !.calls = Append(@, Call(ExportOps[exp.step], 0, None, FALSE))]
    /\ exp' = [ExpShow("connection_failed") EXCEPT !.pc = "done"]
    /\ UNCHANGED <<converter, mode, imp>>

\* Lines 94-95.
ExpSignOut ==
    /\ exp.pc = "export"
    /\ exp.step > Len(ExportOps)
    /\ server' = SignedOut(server)
    /\ exp' = [ExpShow("signed_out") EXCEPT !.pc = "done"]
    /\ UNCHANGED <<converter, mode, imp>>

\* The CSV files given to run_import.
UserHeaders ==
    {<<<<"n","a","m","e">>, <<"s","i","t","e","_","r","o","l","e">>>>,
     <<<<"N","a","m","e">>, <<"S","I","T","E","_","R","O","L","E">>>>,
     <<<<"n","a","m","e">>, <<"e","m","a","i","l">>>>,
     <<<<"u","s","e","r","n","a","m","e">>, <<"s","i","t","e","_","r","o","l","e">>>>}
UserRows ==
    {<<n, r>> : n \in {Str(<<"u">>), Str(<<"w">>), Nan},
                r \in {Str(KwViewer), Nan}}
UserFiles ==
    {Csv(h, rs) : h \in UserHeaders, rs \in SeqsUpTo(UserRows, MaxRows)}
    \cup {NoCsv, BadCsv}

GroupHeaders == {<<<<"g","r","o","u","p">>, <<"n","o","t","e">>>>}
GroupRows ==
    {<<g, n>> : g \in {Str(<<" ","g"," ">>), Str(<<" ">>), Nan, Num(<<"5">>)},
                n \in {Str(<<"h">>), Nan}}
GroupFiles ==
    {Csv(h, rs) : h \in GroupHeaders, rs \in SeqsUpTo(GroupRows, MaxRows)}
    \cup {NoCsv, BadCsv}

\* Lines 282-289: the import type and the file chosen before the press.
ImpFrames ==
    {[ImpIdle EXCEPT !.import_type = "Users", !.uploaded_file = f] : f \in UserFiles}
    \cup
    {[ImpIdle EXCEPT !.import_type = "Groups", !.uploaded_file = f] : f \in GroupFiles}

InitTableau ==
    /\ ConverterInit({NoFile})
    /\ v2 = V2Idle
    /\ exp = ExpIdle
    /\ server = NoSession
    /\ \/ mode = ModeExport /\ imp = ImpIdle
       \/ mode = ModeImport /\ imp \in ImpFrames

NextTableau ==
    \/ ImportNow
    \/ ImpSignIn
    \/ ImpSignInFails
    \/ ReadCsv
    \/ ReadCsvFails
    \/ UserSkipped
    \/ UserItemRaises
    \/ UserAdd
    \/ UserAddRaises
    \/ UsersDone
    \/ GroupSkipped
    \/ GroupCreate
    \/ GroupCreateRaises
    \/ GroupsDone
    \/ ImpSignOut
    \/ ExportNow
    \/ ExpSignIn
    \/ ExpSignInFails
    \/ ExportStep
    \/ ExportStepRaises
    \/ ExpSignOut

SpecTableau == InitTableau /\ [][NextTableau]_vars

\* Both versions on single rows with many role strings.
SpecMapV2 == InitMap /\ [][NextV2]_vars

\* ================================================================ properties
\* Independent statements of what the claims speak of.

\* needle occurs in hay at some offset.
Contains(needle, hay) ==
    \E k \in 0..(Len(hay) - Len(needle)) :
        \A j \in 1..Len(needle) : hay[k + j] = needle[j]

\* The table of section 4.1, in its order.
RoleTable ==
    << [kw |-> KwSiteAdministratorCreator, out |-> <<LitCreator, LitSite, LitTrue>>],
       [kw |-> KwExplorerCanPublish, out |-> <<LitExplorer, LitNone, LitTrue>>],
       [kw |-> KwViewer, out |-> <<LitViewer, LitNone, LitFalse>>],
       [kw |-> KwSiteAdministratorExplorer, out |-> <<LitExplorer, LitSite, LitTrue>>] >>

Matching(s) == {i \in 1..Len(RoleTable) : Contains(RoleTable[i].kw, s)}

FirstMatch(s) ==
    IF Matching(s) = {} THEN <<s, LitNone, LitFalse>>
    ELSE RoleTable[CHOOSE i \in Matching(s) : \A j \in Matching(s) : i <= j].out

\* A reader of CSV text: records of fields, quotes undone.  A line break
\* or comma separates only outside quotes, that is after an even number of
\* double quotes.
Outside(text, k) == Cardinality({j \in 1..(k - 1) : text[j] = Quote}) % 2 = 0

Separators(text, ch) == {k \in 1..Len(text) : text[k] = ch /\ Outside(text, k)}

NthOf(S, n) == CHOOSE p \in S : Cardinality({q \in S : q < p}) = n - 1

\* The m pieces of text cut at the positions S.
Pieces(text, S, m) ==
    [i \in 1..m |->
        SubSeq(text,
               IF i = 1 THEN 1 ELSE NthOf(S, i - 1) + 1,
               IF i > Cardinality(S) THEN Len(text) ELSE NthOf(S, i) - 1)]

Undouble(s) ==
    LET Keep == {j \in 1..Len(s) :
                    \/ s[j] # Quote
                    \/ Cardinality({q \in 1..j : s[q] = Quote}) % 2 = 0}
    IN [i \in 1..Cardinality(Keep) |-> s[NthOf(Keep, i)]]

Unquote(f) ==
    IF Len(f) >= 2 /\ f[1] = Quote /\ f[Len(f)] = Quote
    THEN Undouble(SubSeq(f, 2, Len(f) - 1))
    ELSE f

ParseLine(line) ==
    LET S == Separators(line, Comma)
        fs == Pieces(line, S, Cardinality(S) + 1)
    IN [i \in 1..Len(fs) |-> Unquote(fs[i])]

ParseCsv(text) ==
    LET S == Separators(text, LF)
        m == IF Len(text) > 0 /\ Len(text) \notin S
             THEN Cardinality(S) + 1 ELSE Cardinality(S)
        ls == Pieces(text, S, m)
    IN [i \in 1..m |-> ParseLine(ls[i])]

Count(page, m) == Cardinality({i \in 1..Len(page) : page[i] = m})
HasMsg(m) == \E i \in 1..Len(ui) : ui[i] = m

\* The invocation is past read_excel of a sheet: df holds its rows.
Converting == pc \in {"loop", "done"} /\ uploaded_file.kind = "sheet"
\* The invocation ran to its end without raising.
Completed == pc = "done" /\ uploaded_file.kind = "sheet" /\ ~HasMsg("error")

RoleTriple(rec) == <<rec[4], rec[5], rec[6]>>
ExpectedTriple(s) ==
    <<Str(FirstMatch(s)[1]), Str(FirstMatch(s)[2]), Str(FirstMatch(s)[3])>>

\* C1: for every site_role string the record's (simplified_role,
\* admin_scope, can_publish) is the row of the first keyword, in table
\* order, that is a case-sensitive substring of it, and the pass-through
\* row (site_role, None, False) when no keyword is contained.
C1_FirstMatchWins ==
    Converting =>
        \A i \in 1..Len(transformed_data) :
            IsStr(df[i]["Site Role"]) =>
                RoleTriple(transformed_data[i]) = ExpectedTriple(df[i]["Site Role"].v)

\* A string holding both Viewer and SiteAdministratorExplorer was converted
\* and gave the Viewer row.
C1_Witness ==
    /\ Completed
    /\ Len(transformed_data) = 1
    /\ Contains(KwViewer, df[1]["Site Role"].v)
    /\ Contains(KwSiteAdministratorExplorer, df[1]["Site Role"].v)
    /\ RoleTriple(transformed_data[1]) = <<Str(LitViewer), Str(LitNone), Str(LitFalse)>>

\* C2: when the conversion completes on N rows, the output has exactly N
\* records, in the input order, record i being the one derived from row i;
\* nothing is filtered, merged, duplicated or reordered.
C2_OneRecordPerRow ==
    Completed =>
        /\ Len(transformed_data) = Len(df)
        /\ Len(ParseCsv(download.data)) = Len(df)
        /\ \A i \in 1..Len(df) :
              /\ transformed_data[i][1] = GetEmail(df[i])
              /\ RoleTriple(transformed_data[i]) = ExpectedTriple(GetSiteRole(df[i]).v)
              /\ ParseCsv(download.data)[i] =
                    [j \in 1..6 |-> CellText(transformed_data[i][j])]

\* Two identical rows were converted and gave two records.
C2_Witness ==
    /\ Completed
    /\ Len(df) = 2
    /\ df[1] = df[2]
    /\ Len(transformed_data) = 2
    /\ transformed_data[1] = transformed_data[2]
    /\ Len(ParseCsv(download.data)) = 2

\* C3: a null or non-string site_role never aborts the conversion: it is
\* read as the empty string, its row yields (email, "", "", "", None, False)
\* and every other row is converted as well.
C3_NonStringRoleTolerated ==
    (pc = "done" /\ uploaded_file.kind = "sheet") =>
        /\ ~HasMsg("error")
        /\ Len(transformed_data) = Len(df)
        /\ \A i \in 1..Len(df) :
              ~IsStr(GetSiteRole(df[i])) =>
                  transformed_data[i] =
                      <<GetEmail(df[i]), Str(<<>>), Str(<<>>), Str(<<>>),
                        Str(LitNone), Str(LitFalse)>>

\* C4 as stated: a sheet lacking the Email or the Site Role column fails
\* with a reported error and offers no download.
C4_MissingColumnFails ==
    (pc = "done" /\ uploaded_file.kind = "sheet"
        /\ ~({"Email", "Site Role"} \subseteq uploaded_file.header)) =>
        /\ HasMsg("error")
        /\ ~download.offered

\* C4 amended: a missing column is read as the empty string in every row
\* and is no failure.  Without Site Role the conversion succeeds with one
\* pass-through record per row; without Email every record has an empty
\* first field; a readable sheet fails only on a Site Role cell that is
\* present and is not a string.
C4_MissingColumnDefaults ==
    (pc = "done" /\ uploaded_file.kind = "sheet") =>
        /\ "Site Role" \notin uploaded_file.header =>
              /\ HasMsg("success")
              /\ ~HasMsg("error")
              /\ download.offered
              /\ Len(transformed_data) = Len(df)
              /\ \A i \in 1..Len(df) :
                    RoleTriple(transformed_data[i]) =
                        <<Str(<<>>), Str(LitNone), Str(LitFalse)>>
        /\ "Email" \notin uploaded_file.header =>
              \A i \in 1..Len(transformed_data) :
                  transformed_data[i][1] = Str(<<>>)
        /\ HasMsg("error") =>
              /\ "Site Role" \in uploaded_file.header
              /\ \E i \in 1..Len(df) : ~IsStr(df[i]["Site Role"])

\* A sheet with only the Email column, two rows, was converted.
C4_Witness ==
    /\ pc = "done"
    /\ uploaded_file.kind = "sheet"
    /\ uploaded_file.header = {"Email"}
    /\ Len(df) = 2
    /\ Len(transformed_data) = 2
    /\ download.offered

\* The invocation cannot succeed: the file is unreadable or a row raises.
MustFail ==
    \/ uploaded_file.kind = "unreadable"
    \/ /\ uploaded_file.kind = "sheet"
       /\ \E i \in 1..Len(uploaded_file.rows) :
             ~IsStr(GetSiteRole(uploaded_file.rows[i]))

\* C5: a failing invocation ends with exactly one error message, no
\* download and no success message; the success message appears only after
\* the download holding all rows was offered.
C5_FailureIsReportedOnce ==
    /\ (pc = "done" /\ MustFail) =>
          /\ Count(ui, "error") = 1
          /\ ~download.offered
          /\ ~HasMsg("success")
    /\ HasMsg("error") => ~download.offered /\ ~HasMsg("success")
    /\ HasMsg("success") =>
          /\ download.offered
          /\ \E i, j \in 1..Len(ui) :
                i < j /\ ui[i] = "download" /\ ui[j] = "success"
          /\ uploaded_file.kind = "sheet"
          /\ Len(ParseCsv(download.data)) = Len(uploaded_file.rows)

\* The last of two rows raised after the first was converted.
C5_Witness ==
    /\ pc = "done"
    /\ Len(df) = 2
    /\ IsStr(GetSiteRole(df[1]))
    /\ ~IsStr(GetSiteRole(df[2]))
    /\ Len(transformed_data) = 1
    /\ Count(ui, "error") = 1
    /\ ~download.offered

\* C6: the first field of every record is the Email cell of its row,
\* unchanged, whichever branch the role takes; a null Email (and an absent
\* one) is written as the empty field and does not abort the conversion.
C6_EmailVerbatim ==
    Converting =>
        /\ \A i \in 1..Len(transformed_data) :
              /\ "Email" \in uploaded_file.header =>
                    transformed_data[i][1] = df[i]["Email"]
              /\ "Email" \notin uploaded_file.header =>
                    transformed_data[i][1] = Str(<<>>)
        /\ Completed =>
              \A i \in 1..Len(df) :
                  ParseCsv(download.data)[i][1] =
                      IF "Email" \in uploaded_file.header /\ IsStr(df[i]["Email"])
                      THEN df[i]["Email"].v ELSE <<>>
        /\ (pc = "done" /\ \A i \in 1..Len(df) : IsStr(GetSiteRole(df[i]))) =>
              HasMsg("success") /\ download.offered

\* A null Email and one with blanks, a capital, a comma and a quote were
\* converted by two different branches and read back from the CSV text.
C6_Witness ==
    /\ Completed
    /\ uploaded_file.header = {"Email", "Site Role"}
    /\ Len(df) = 2
    /\ df[1]["Email"] = Nan
    /\ df[2]["Email"] = Str(<<" ", "B", ",", "\"", " ">>)
    /\ transformed_data[1][4] = Str(LitCreator)
    /\ transformed_data[2][4] = Str(<<"U","n","l","i","c","e","n","s","e","d">>)
    /\ ParseCsv(download.data)[1][1] = <<>>
    /\ ParseCsv(download.data)[2][1] = <<" ", "B", ",", "\"", " ">>

\* C7: every record has exactly six fields, the second and third empty,
\* in the list and in the CSV text written from it.
C7_SixFieldsTwoEmpty ==
    Converting =>
        /\ \A i \in 1..Len(transformed_data) :
              /\ Len(transformed_data[i]) = 6
              /\ transformed_data[i][2] = Str(<<>>)
              /\ transformed_data[i][3] = Str(<<>>)
        /\ Completed =>
              \A i \in 1..Len(ParseCsv(download.data)) :
                  /\ Len(ParseCsv(download.data)[i]) = 6
                  /\ ParseCsv(download.data)[i][2] = <<>>
                  /\ ParseCsv(download.data)[i][3] = <<>>

\* A mapped row and a passed-through row with a null Email were written.
C7_Witness ==
    /\ Completed
    /\ Len(transformed_data) = 2
    /\ transformed_data[1][4] = Str(LitViewer)
    /\ transformed_data[2][4] = Str(<<"U","n","l","i","c","e","n","s","e","d">>)
    /\ transformed_data[2][1] = Nan
    /\ Len(ParseCsv(download.data)[2]) = 6

\* C8: field 5 of every record is "site" or "None" and field 6 is "True"
\* or "False", for any site_role string, the pass-through branch included.
C8_ScopeAndPublishDomains ==
    Converting =>
        /\ \A i \in 1..Len(transformed_data) :
              /\ transformed_data[i][5] \in {Str(LitSite), Str(LitNone)}
              /\ transformed_data[i][6] \in {Str(LitTrue), Str(LitFalse)}
        /\ Completed =>
              \A i \in 1..Len(ParseCsv(download.data)) :
                  /\ ParseCsv(download.data)[i][5] \in {LitSite, LitNone}
                  /\ ParseCsv(download.data)[i][6] \in {LitTrue, LitFalse}

\* A string holding no keyword (only a lower-case one) was passed through.
C8_Witness ==
    /\ Completed
    /\ Len(transformed_data) = 1
    /\ Matching(df[1]["Site Role"].v) = {}
    /\ Contains(<<"v","i","e","w","e","r">>, df[1]["Site Role"].v)
    /\ transformed_data[1][4] = df[1]["Site Role"]
    /\ ParseCsv(download.data)[1][5] = LitNone
    /\ ParseCsv(download.data)[1][6] = LitFalse

\* C9: a second run on the same file leaves the same records, the same
\* CSV text and the same messages as the run before it.
C9_RerunIsIdentical ==
    (pc = "done" /\ last_run.ran /\ last_run.file = uploaded_file) =>
        /\ transformed_data = last_run.records
        /\ download = last_run.download
        /\ ui = last_run.ui

\* The same two-row sheet was converted twice in succession.
C9_Witness ==
    /\ pc = "done"
    /\ last_run.ran
    /\ last_run.file = uploaded_file
    /\ Len(uploaded_file.rows) = 2
    /\ Len(last_run.records) = 2
    /\ last_run.download.offered
    /\ download.offered

\* C10: two runs whose inputs agree on row i give equal records at
\* position i, whatever their other rows hold.
C10_RecordDependsOnOwnRow ==
    (Converting /\ last_run.ran) =>
        \A i \in 1..Len(transformed_data) :
            (i <= Len(last_run.records) /\ last_run.file.rows[i] = df[i]) =>
                last_run.records[i] = transformed_data[i]

\* Two sheets that differ in row 1 (a site administrator in one of them)
\* and agree on a passed-through row 2 were converted one after the other.
C10_Witness ==
    /\ pc = "done"
    /\ last_run.ran
    /\ Len(transformed_data) = 2
    /\ Len(last_run.records) = 2
    /\ last_run.file.rows[1] # df[1]
    /\ last_run.file.rows[2] = df[2]
    /\ last_run.records[1][5] = Str(LitSite)
    /\ transformed_data[1][5] = Str(LitNone)
    /\ transformed_data[2][4] = Str(<<"U","n","l","i","c","e","n","s","e","d">>)
    /\ last_run.records[2] = transformed_data[2]
\* The five role strings Tableau is known to export.
KnownRoles ==
    {KwSiteAdministratorCreator, KwExplorerCanPublish, KwViewer,
     KwSiteAdministratorExplorer, <<"U","n","l","i","c","e","n","s","e","d">>}

\* The orders in which the four keyword tests can be made.
TestOrders == {p \in [1..4 -> 1..4] : \A a, b \in 1..4 : p[a] = p[b] => a = b}

\* The keyword tests of the converter that are true of s.
TrueTests(s) == {k \in 1..4 : StrIn(RoleTable[k].kw, s)}

\* The row of the table chosen when the tests are made in the order p.
InOrder(p, s) ==
    LET hits == {a \in 1..4 : StrIn(RoleTable[p[a]].kw, s)}
    IN IF hits = {} THEN <<s, LitNone, LitFalse>>
       ELSE RoleTable[p[CHOOSE a \in hits : \A b \in hits : a <= b]].out

\* C11: on each of the five known role strings at most one keyword test
\* is true, so the record is the one any order of the four tests gives.
\* (Stated of the record just appended: every record is that one once.)
C11_OrderIrrelevantOnKnownRoles ==
    (pc = "loop" /\ uploaded_file.kind = "sheet" /\ transformed_data # <<>>) =>
        LET i == Len(transformed_data)
            r == GetSiteRole(df[i])
        IN (IsStr(r) /\ r.v \in KnownRoles) =>
              /\ Cardinality(TrueTests(r.v)) <= 1
              /\ \A p \in TestOrders :
                    LET row == InOrder(p, r.v)
                    IN RoleTriple(transformed_data[i]) =
                          <<Str(row[1]), Str(row[2]), Str(row[3])>>

\* SiteAdministratorExplorer and Unlicensed were converted in one run.
C11_Witness ==
    /\ Completed
    /\ Len(transformed_data) = 2
    /\ uploaded_file.header = {"Email", "Site Role"}
    /\ df[1]["Site Role"] = Str(KwSiteAdministratorExplorer)
    /\ df[2]["Site Role"] = Str(<<"U","n","l","i","c","e","n","s","e","d">>)
    /\ RoleTriple(transformed_data[1]) = <<Str(LitExplorer), Str(LitSite), Str(LitTrue)>>
    /\ RoleTriple(transformed_data[2]) =
          <<Str(<<"U","n","l","i","c","e","n","s","e","d">>), Str(LitNone), Str(LitFalse)>>

\* C12: a sheet with no data rows is converted successfully: the CSV text
\* is empty (no header line, no record), the download is offered and no
\* error is reported.
C12_EmptyInputEmptyCsv ==
    (pc = "done" /\ uploaded_file.kind = "sheet" /\ uploaded_file.rows = <<>>) =>
        /\ download.offered
        /\ download.data = <<>>
        /\ ParseCsv(download.data) = <<>>
        /\ transformed_data = <<>>
        /\ HasMsg("success")
        /\ ~HasMsg("error")

\* A sheet with both columns and no rows was converted.
C12_Witness ==
    /\ pc = "done"
    /\ uploaded_file.kind = "sheet"
    /\ uploaded_file.header = {"Email", "Site Role"}
    /\ uploaded_file.rows = <<>>
    /\ download.offered
    /\ ui = <<"preview", "download", "success">>
\* ------------------------------------------------------------------ C13
V2Failed == \E k \in 1..Len(v2.ui) : v2.ui[k] = "error"
V2Completed == v2.pc = "done" /\ ~V2Failed
BothRan == pc = "done" /\ v2.pc = "done" /\ uploaded_file.kind = "sheet"

\* C13: on the same sequence of rows, convert_excel_to_csv and the "Convert
\* User Format" branch of main fail together or complete together; when they
\* complete their record sequences and offered texts are equal, and when
\* they fail they have stopped at the same row.
C13_V1AndV2Agree ==
    BothRan =>
        /\ HasMsg("error") <=> V2Failed
        /\ transformed_data = v2.transformed_data
        /\ Completed =>
              /\ V2Completed
              /\ Len(v2.transformed_data) = Len(uploaded_file.rows)
              /\ download = v2.download
        /\ HasMsg("error") => idx = v2.idx /\ ~v2.download.offered

C13_Witness ==
    /\ BothRan
    /\ Completed
    /\ V2Completed
    /\ uploaded_file.header = {"Email", "Site Role"}
    /\ Len(uploaded_file.rows) = 2
    /\ uploaded_file.rows[1]["Site Role"] = Str(KwSiteAdministratorExplorer)
    /\ uploaded_file.rows[2]["Site Role"] = Str(<<"U","n","l","i","c","e","n","s","e","d">>)
    /\ v2.transformed_data = transformed_data
    /\ Len(transformed_data) = 2
    /\ v2.download.offered
\* ------------------------------------------------------------ C14 .. C20
Calls == server.calls
ImpSaid(m) == \E i \in 1..Len(imp.ui) : imp.ui[i].m = m
Warned(m, k) == \E i \in 1..Len(imp.ui) : imp.ui[i] = [m |-> m, row |-> k]
Created(op, k) == \E i \in 1..Len(Calls) : Calls[i] = [Calls[i] EXCEPT !.op = op, !.row = k, !.ok = TRUE]
Refused(op, k) == \E i \in 1..Len(Calls) : Calls[i] = [Calls[i] EXCEPT !.op = op, !.row = k, !.ok = FALSE]
RowOps == {"users.add", "groups.create"}
\* The names the site accepted, in the order of the requests.
Accepted(op) ==
    LET Good(c) == c.op = op /\ c.ok
        good == SelectSeq(Calls, Good)
    IN [i \in 1..Len(good) |-> good[i].arg]
\* How many of the outcomes a row can have did row k have.
Outcomes(k) ==
    Cardinality({o \in {"skipped", "failed", "created"} :
        \/ o = "skipped" /\ Warned("skipping_row", k)
        \/ o = "failed" /\ (Warned("could_not_add", k) \/ Warned("could_not_create", k))
        \/ o = "created" /\ \E op \in RowOps : Created(op, k)})
Importing == mode = ModeImport /\ ImpSaid("preview")
LoopLeft == Importing /\ imp.pc \in {"sign_out", "done"}

\* C14: run_import attempts the rows one by one: whatever happens to a row
\* (skipped, refused, created) every row of the file gets exactly one
\* outcome, what the site accepted stays on the site, in order, and no
\* failure of a row is reported by the outer "Import failed" handler.
C14_RowsAreIndependent ==
    Importing =>
        /\ ~ImpSaid("import_failed")
        /\ server.users = Accepted("users.add")
        /\ server.groups = Accepted("groups.create")
        /\ \A k \in 1..Len(imp.df) :
              /\ k < imp.idx => Outcomes(k) = 1
              /\ k >= imp.idx => Outcomes(k) = 0
              /\ \A op \in RowOps : Refused(op, k) =>
                    Warned("could_not_add", k) \/ Warned("could_not_create", k)
        /\ LoopLeft => imp.idx = Len(imp.df) + 1

\* The site refused the user of row 1 and accepted the user of row 2.
C14_Witness ==
    /\ mode = ModeImport
    /\ imp.pc = "done"
    /\ imp.import_type = "Users"
    /\ Len(imp.df) = 2
    /\ Refused("users.add", 1)
    /\ Warned("could_not_add", 1)
    /\ Created("users.add", 2)
    /\ server.users = <<Str(<<"w">>)>>
    /\ ImpSaid("signed_out")
    /\ ~ImpSaid("import_failed")
\* C15: convert_excel_to_csv asks nothing of Tableau and touches nothing
\* outside its invocation: no sign-in, sign-out, creation or listing is
\* requested, no session is opened, the frames of run_import and run_export
\* and the chosen page stay as they were, and a download is on the page
\* exactly when the conversion completed.
C15_ConverterHasNoSideEffect ==
    /\ server.calls = <<>>
    /\ ~server.signed_in
    /\ server.users = <<>>
    /\ server.groups = <<>>
    /\ imp = ImpIdle
    /\ exp = ExpIdle
    /\ mode = ModeConvert
    /\ download.offered <=> (pc = "done" /\ HasMsg("success"))

\* Two rows were converted and the text is offered; the site was not asked
\* anything.
C15_Witness ==
    /\ Completed
    /\ Len(df) = 2
    /\ Len(transformed_data) = 2
    /\ download.offered
    /\ download.data = ToCsv(transformed_data)
    /\ server = NoSession

\* C16: "All users imported!" is on the page only when every row of the
\* file led to a users.add that the site accepted.
C16_AllImportedMeansAll ==
    (mode = ModeImport /\ imp.import_type = "Users"
        /\ ImpSaid("all_users_imported")) =>
        \A k \in 1..Len(imp.df) : Created("users.add", k)
\* The text between the first and the last character that is not blank.
Blank == {" ", "\t", "\n", "\r"}
Trimmed(s) ==
    LET solid == {i \in 1..Len(s) : s[i] \notin Blank}
    IN IF solid = {} THEN <<>>
       ELSE SubSeq(s, CHOOSE a \in solid : \A b \in solid : a <= b,
                      CHOOSE a \in solid : \A b \in solid : a >= b)
\* The cells of a row, in column order, that can name a group.
Naming(row) ==
    {i \in 1..Len(row) : row[i].t = "str" /\ Trimmed(row[i].v) # <<>>}
FirstNaming(row) == CHOOSE i \in Naming(row) : \A j \in Naming(row) : i <= j
GroupCalls(k) == {i \in 1..Len(Calls) : Calls[i].op = "groups.create" /\ Calls[i].row = k}
ImportingGroups == Importing /\ imp.import_type = "Groups"

\* C17: for every row the Groups loop has been through, if some cell is a
\* non-null string that is not blank, groups.create was requested once with
\* the first such cell, in column order, trimmed; otherwise no
\* groups.create was requested for the row and the row was skipped with a
\* warning.
C17_GroupNamedByFirstString ==
    ImportingGroups =>
        \A k \in 1..(imp.idx - 1) :
            LET row == imp.uploaded_file.rows[k]
            IN IF Naming(row) # {}
               THEN /\ Cardinality(GroupCalls(k)) = 1
                    /\ \A i \in GroupCalls(k) :
                          Calls[i].arg = Str(Trimmed(row[FirstNaming(row)].v))
                    /\ ~Warned("skipping_row", k)
               ELSE /\ GroupCalls(k) = {}
                    /\ Warned("skipping_row", k)

\* Row 1 starts with a blank string and is named by its second cell, row 2
\* by its first cell without the blanks around it.
C17_Witness ==
    /\ ImportingGroups
    /\ imp.pc = "done"
    /\ imp.uploaded_file.rows = << <<Str(<<" ">>), Str(<<"h">>)>>,
                                   <<Str(<<" ","g"," ">>), Str(<<"h">>)>> >>
    /\ server.groups = <<Str(<<"h">>), Str(<<"g">>)>>
    /\ ImpSaid("all_groups_imported")
\* C18: when run_export or run_import has returned, no session it opened is
\* still signed in.
C18_AlwaysSignedOut ==
    (imp.pc = "done" \/ exp.pc = "done") => ~server.signed_in

SignIns == {i \in 1..Len(Calls) : Calls[i].op = "auth.sign_in"}
SignOuts == {i \in 1..Len(Calls) : Calls[i].op = "auth.sign_out"}
RowCalls == {i \in 1..Len(Calls) : Calls[i].op \in RowOps}

\* C19: in run_import every users.add or groups.create comes after a
\* sign-in that succeeded and before any sign-out; without an uploaded file
\* the function returns having asked nothing of the server, and after a
\* sign-in that failed no add or create is requested.
C19_CallsInsideTheSession ==
    mode = ModeImport =>
        /\ \A i \in RowCalls :
              /\ \E j \in SignIns : j < i /\ Calls[j].ok
              /\ \A j \in SignOuts : i < j
        /\ Cardinality(SignIns) <= 1
        /\ Cardinality(SignOuts) <= 1
        /\ imp.uploaded_file.kind = "none" =>
              /\ Calls = <<>>
              /\ ~server.signed_in
              /\ imp.pc \in {"idle", "done"}
        /\ (\E j \in SignIns : ~Calls[j].ok) =>
              /\ RowCalls = {}
              /\ ~server.signed_in
              /\ imp.pc = "done"

\* Sign-in, two users.add, sign-out, in this order.
C19_Witness ==
    /\ mode = ModeImport
    /\ imp.pc = "done"
    /\ Len(Calls) = 4
    /\ Calls[1].op = "auth.sign_in" /\ Calls[1].ok
    /\ Calls[2].op = "users.add"
    /\ Calls[3].op = "users.add"
    /\ Calls[4].op = "auth.sign_out"
    /\ ~server.signed_in

\* The label with its capitals replaced, for the labels of the files.
Folded(label) ==
    CASE label = <<"N","a","m","e">> -> <<"n","a","m","e">>
      [] label = <<"S","I","T","E","_","R","O","L","E">> -> <<"s","i","t","e","_","r","o","l","e">>
      [] OTHER -> label
\* Row k has a non-null cell under a column that folds to this key.
HasCell(k, key) ==
    \E c \in 1..Len(imp.uploaded_file.header) :
        /\ Folded(imp.uploaded_file.header[c]) = key
        /\ imp.uploaded_file.rows[k][c].t # "nan"
Eligible(k) == HasCell(k, <<"n","a","m","e">>) /\ HasCell(k, <<"s","i","t","e","_","r","o","l","e">>)
UserCalls(k) == {i \in 1..Len(Calls) : Calls[i].op = "users.add" /\ Calls[i].row = k}
ImportingUsers == Importing /\ imp.import_type = "Users"

\* C20: in the Users loop users.add is requested for a row only if the row,
\* null cells dropped and labels lower-cased, has a name and a site_role; a
\* row lacking either is skipped with a warning and without a server call,
\* rows having both are not skipped, and the loop goes on to the last row.
C20_AddOnlyWithNameAndRole ==
    ImportingUsers =>
        /\ \A k \in 1..(imp.idx - 1) :
              /\ UserCalls(k) # {} => Eligible(k)
              /\ Warned("skipping_row", k) <=> ~Eligible(k)
              /\ ~Eligible(k) => UserCalls(k) = {}
              /\ \A i \in UserCalls(k) :
                    \E c \in 1..Len(imp.uploaded_file.header) :
                        Calls[i].arg = imp.uploaded_file.rows[k][c]
        /\ \A i \in RowCalls : Calls[i].row < imp.idx
        /\ LoopLeft => imp.idx = Len(imp.df) + 1

\* Under the labels Name and SITE_ROLE, row 1 has no site_role and was
\* skipped, and row 2 was added after it.
C20_Witness ==
    /\ ImportingUsers
    /\ imp.pc = "done"
    /\ imp.uploaded_file.header = <<<<"N","a","m","e">>, <<"S","I","T","E","_","R","O","L","E">>>>
    /\ imp.uploaded_file.rows = << <<Str(<<"u">>), Nan>>,
                                   <<Str(<<"w">>), Str(KwViewer)>> >>
    /\ Warned("skipping_row", 1)
    /\ UserCalls(1) = {}
    /\ Created("users.add", 2)
    /\ server.users = <<Str(<<"w">>)>>
\* ------------------------------------------------------------------ C21
Publishers == {Str(LitCreator), Str(LitExplorer)}
\* The role string holds none of the four keywords.
PassedThrough(c) ==
    /\ IsStr(c)
    /\ \A kw \in {KwSiteAdministratorCreator, KwExplorerCanPublish, KwViewer,
                   KwSiteAdministratorExplorer} : ~Contains(kw, c.v)
Consistent(rec, role) ==
    /\ rec[5] = Str(LitSite) => rec[6] = Str(LitTrue) /\ rec[4] \in Publishers
    /\ rec[6] = Str(LitTrue) => rec[4] \in Publishers
    /\ rec[5] \in {Str(LitSite), Str(LitNone)}
    /\ rec[6] \in {Str(LitTrue), Str(LitFalse)}
    /\ (rec[4] = Str(LitViewer) \/ PassedThrough(role)) =>
          rec[5] = Str(LitNone) /\ rec[6] = Str(LitFalse)

\* C21: in every record of either version of the converter, admin_scope
\* "site" comes with can_publish "True" and a role Creator or Explorer,
\* can_publish "True" comes with a role Creator or Explorer, and a Viewer
\* record or a record whose role was passed through has admin_scope None
\* and can_publish False.
C21_ScopePublishRoleConsistent ==
    /\ \A i \in 1..Len(transformed_data) :
          Consistent(transformed_data[i], GetSiteRole(uploaded_file.rows[i]))
    /\ \A i \in 1..Len(v2.transformed_data) :
          Consistent(v2.transformed_data[i], V2GetSiteRole(uploaded_file.rows[i]))

\* A role holding both Viewer and SiteAdministratorExplorer went through
\* both versions and gave the Viewer record, without scope or publishing.
C21_Witness ==
    /\ BothRan
    /\ Len(transformed_data) = 1
    /\ Len(v2.transformed_data) = 1
    /\ Contains(KwViewer, uploaded_file.rows[1]["Site Role"].v)
    /\ Contains(KwSiteAdministratorExplorer, uploaded_file.rows[1]["Site Role"].v)
    /\ RoleTriple(transformed_data[1]) = <<Str(LitViewer), Str(LitNone), Str(LitFalse)>>
    /\ RoleTriple(v2.transformed_data[1]) = <<Str(LitViewer), Str(LitNone), Str(LitFalse)>>
====
